---- MODULE Spec2Model ----
(***************************************************************************)
(* Cursor pagination (DBPaginator over SQLAlchemy, MongoPaginator over     *)
(* motor) and the Redis request limiter of fastapi-template.               *)
(***************************************************************************)
EXTENDS Integers, Sequences, FiniteSets, TLC

VARIABLES
    rows,     \* the table / collection: a set of records [id, active]
    flt,      \* the caller's base filter: "all" or "active"
    limit,    \* page size handed to the paginators
    store,    \* the store the caller pages: "postgres" or "mongo"
    resp,     \* what the last paginator call handed back to its caller
    mquery,   \* the filter mapping the caller hands to MongoPaginator
    pc,       \* position of the client that walks the pages
    acc,      \* items collected by the walking client
    redis,    \* the Redis keyspace: key -> [val, ttl]
    now,      \* wall clock, in seconds
    req,      \* per in-flight request: the wrapper's position and locals
    calls     \* key -> number of times the wrapped handler was invoked

vars == <<rows, flt, limit, store, resp, mquery, pc, acc, redis, now, req, calls>>

pagerVars == <<rows, flt, limit, store, resp, mquery, pc, acc>>
limiterVars == <<redis, now, req, calls>>

----------------------------------------------------------------------------
(* Bounds of the model *)

MaxRows == 3      \* identifiers FirstId .. FirstId + MaxRows - 1
FirstId == 8      \* smallest identifier (so that 1- and 2-digit ids occur)
MaxLimit == 2     \* page sizes 1 .. MaxLimit

Ids == FirstId .. (FirstId + MaxRows - 1)
Limits == 1 .. MaxLimit
IVs == {0, 1}     \* the fresh randomness of one Fernet encryption
Filters == {"all", "active"}

None == [kind |-> "None"]

----------------------------------------------------------------------------
(* Python str(int) and int(str) on decimal literals *)

DigitChars == <<"0", "1", "2", "3", "4", "5", "6", "7", "8", "9">>

DigitVal(c) == (CHOOSE d \in 1..10 : DigitChars[d] = c) - 1

IsDigit(c) == \E d \in 1..10 : DigitChars[d] = c

RECURSIVE str(_)
str(n) ==
    IF n < 0 THEN <<"-">> \o str(-n)
    ELSE IF n < 10 THEN <<DigitChars[n + 1]>>
    ELSE str(n \div 10) \o <<DigitChars[(n % 10) + 1]>>

RECURSIVE ParseDigits(_)
ParseDigits(s) ==
    IF Len(s) = 0 THEN 0
    ELSE 10 * ParseDigits(SubSeq(s, 1, Len(s) - 1)) + DigitVal(s[Len(s)])

\* int(text): an optional sign followed by one or more digits, else ValueError
int(s) ==
    LET signed == Len(s) > 0 /\ s[1] \in {"-", "+"}
        body == IF signed THEN SubSeq(s, 2, Len(s)) ELSE s
    IN  IF Len(body) > 0 /\ \A i \in 1..Len(body) : IsDigit(body[i])
        THEN [ok |-> TRUE,
              value |-> IF signed /\ s[1] = "-" THEN 0 - ParseDigits(body)
                        ELSE ParseDigits(body)]
        ELSE [ok |-> FALSE, error |-> "ValueError"]

----------------------------------------------------------------------------
(* utils/helpers/pagination.py *)

\* f.encrypt: a token is well-formed, carries a valid tag, a fresh iv and the
\* plaintext
encrypt(plain, iv) ==
    [kind |-> "str", fmt |-> TRUE, tag |-> TRUE, iv |-> iv, payload |-> plain]

\* faulty variant: the payload is read without verifying the token
decrypt_unverified(token) == [ok |-> TRUE, plain |-> token.payload]

\* f.decrypt: rejects a malformed token or one whose tag does not verify
decrypt(token) ==
    IF token.fmt /\ token.tag
    THEN [ok |-> TRUE, plain |-> token.payload]
    ELSE [ok |-> FALSE, error |-> "InvalidToken"]

encode_id(identifier, iv) == encrypt(str(identifier), iv)

decode_id(token) ==
    IF token = None THEN [ok |-> FALSE, error |-> "AttributeError"]
    ELSE LET d == decrypt(token)
         IN  IF d.ok THEN int(d.plain) ELSE d

----------------------------------------------------------------------------
(* The query object: filter, order_by, limit, execute *)

\* rows selected by the caller's base query
Matching(db, q) == {r \in db : q = "all" \/ r.active}

\* the sets of rows a query can select: identifiers are unique
RowSets ==
    {S \in SUBSET {[id |-> i, active |-> a] : i \in Ids, a \in BOOLEAN} :
        \A r, o \in S : r.id = o.id => r = o}

\* ORDER BY id DESC, tabulated: the row at position i has i - 1 rows above it
DescTable ==
    [S \in RowSets |->
        [i \in 1..Cardinality(S) |->
            CHOOSE r \in S : Cardinality({o \in S : o.id > r.id}) = i - 1]]

\* ORDER BY id ASC, tabulated
AscTable ==
    [S \in RowSets |->
        [i \in 1..Cardinality(S) |->
            CHOOSE r \in S : Cardinality({o \in S : o.id < r.id}) = i - 1]]

OrderDesc(S) == DescTable[S]

OrderAsc(S) == AscTable[S]

\* faulty variant: the LIMIT clause is lost
Limit_dropped(seq, n) == seq

Limit(seq, n) == SubSeq(seq, 1, IF Len(seq) < n THEN Len(seq) ELSE n)

\* Result.scalar(): the first row, or None
Scalar(seq) == IF Len(seq) = 0 THEN None ELSE seq[1]

\* faulty variant: the count ignores the base filter
get_count_unfiltered(db, q) == Cardinality(db)

get_count(db, q) == Cardinality(Matching(db, q))

----------------------------------------------------------------------------
(* utils/paginations/postgres.py: DBPaginator *)

Raise(e, nq) ==
    [status |-> e, items |-> <<>>, previous_cursor |-> None,
     next_cursor |-> None, queries |-> nq, delegated |-> FALSE]

Return(items, prev, next, nq, dlg) ==
    [status |-> "ok", items |-> items, previous_cursor |-> prev,
     next_cursor |-> next, queries |-> nq, delegated |-> dlg]

\* result[i] of a Python list (i = -1 is the last element): IndexError
\* when the list is empty
Item(result, i) ==
    IF Len(result) = 0 THEN [ok |-> FALSE, error |-> "IndexError"]
    ELSE [ok |-> TRUE, row |-> IF i < 0 THEN result[Len(result)] ELSE result[1]]

Cursor(c, nq) == [error |-> "", cursor |-> c, queries |-> nq]

Failed(e, nq) == [error |-> e, cursor |-> None, queries |-> nq]

\* faulty variant: the reversed flag is ignored
_set_previous_cursor_unreversed(db, q, result, is_reversed, iv) ==
    IF Len(result) > 0
    THEN LET first_id == Scalar(OrderDesc(Matching(db, q)))
             first == Item(result, 0)
         IN  IF first_id # None /\ first_id.id # first.row.id
             THEN Cursor(encode_id(first.row.id, iv), 1)
             ELSE Cursor(None, 1)
    ELSE Cursor(None, 0)

\* faulty variant: the emptiness guard is lost
_set_previous_cursor_unguarded(db, q, result, is_reversed, iv) ==
    LET first_id == Scalar(OrderDesc(Matching(db, q)))
        first == IF is_reversed THEN Item(result, -1) ELSE Item(result, 0)
    IN  IF ~first.ok THEN Failed(first.error, 1)
        ELSE IF first_id # None /\ first_id.id # first.row.id
        THEN Cursor(encode_id(first.row.id, iv), 1)
        ELSE Cursor(None, 1)

\* faulty variant: the probe reads the smallest-identifier row
_set_previous_cursor_smallest(db, q, result, is_reversed, iv) ==
    IF Len(result) > 0
    THEN LET first_id == Scalar(OrderAsc(Matching(db, q)))
             first == IF is_reversed THEN Item(result, -1) ELSE Item(result, 0)
         IN  IF ~first.ok THEN Failed(first.error, 1)
             ELSE IF first_id # None /\ first_id.id # first.row.id
             THEN Cursor(encode_id(first.row.id, iv), 1)
             ELSE Cursor(None, 1)
    ELSE Cursor(None, 0)

_set_previous_cursor(db, q, result, is_reversed, iv) ==
    IF Len(result) > 0
    THEN LET first_id == Scalar(OrderDesc(Matching(db, q)))
             first == IF is_reversed THEN Item(result, -1) ELSE Item(result, 0)
         IN  IF ~first.ok THEN Failed(first.error, 1)
             ELSE IF first_id # None /\ first_id.id # first.row.id
             THEN Cursor(encode_id(first.row.id, iv), 1)
             ELSE Cursor(None, 1)
    ELSE Cursor(None, 0)

\* faulty variant: the reversed flag is ignored
_set_next_cursor_unreversed(db, q, lim, result, is_reversed, iv) ==
    IF Len(result) = lim
    THEN LET last_id == Scalar(OrderAsc(Matching(db, q)))
             last == Item(result, -1)
         IN  IF ~last.ok THEN Failed(last.error, 1)
             ELSE IF last_id # None /\ last_id.id # last.row.id
             THEN Cursor(encode_id(last.row.id, iv), 1)
             ELSE Cursor(None, 1)
    ELSE Cursor(None, 0)

_set_next_cursor(db, q, lim, result, is_reversed, iv) ==
    IF Len(result) = lim
    THEN LET last_id == Scalar(OrderAsc(Matching(db, q)))
             last == IF is_reversed THEN Item(result, 0) ELSE Item(result, -1)
         IN  IF ~last.ok THEN Failed(last.error, 1)
             ELSE IF last_id # None /\ last_id.id # last.row.id
             THEN Cursor(encode_id(last.row.id, iv), 1)
             ELSE Cursor(None, 1)
    ELSE Cursor(None, 0)

\* the tail shared by the three operations: set the cursors, return the triple
Finish(results, pv, nx, nq, dlg) ==
    IF pv.error # "" THEN Raise(pv.error, nq + pv.queries)
    ELSE IF nx.error # "" THEN Raise(nx.error, nq + pv.queries + nx.queries)
    ELSE Return(results, pv.cursor, nx.cursor, nq + pv.queries + nx.queries, dlg)

\* faulty variant: the first page probes for a previous cursor as well
get_first_probing(db, q, lim, iv) ==
    LET results == Limit(OrderDesc(Matching(db, q)), lim)
    IN  Finish(results,
               _set_previous_cursor(db, q, results, FALSE, iv),
               _set_next_cursor(db, q, lim, results, FALSE, iv), 1, FALSE)

get_first(db, q, lim, iv) ==
    LET results == Limit(OrderDesc(Matching(db, q)), lim)
    IN  Finish(results, Cursor(None, 0),
               _set_next_cursor(db, q, lim, results, FALSE, iv), 1, FALSE)

\* faulty variant: the page is read in ascending order
get_next_ascending(db, q, lim, cursor, iv) ==
    LET dec == decode_id(cursor)
    IN  IF ~dec.ok THEN Raise(dec.error, 0)
        ELSE LET results ==
                     Limit(OrderAsc({r \in Matching(db, q) : r.id < dec.value}),
                           lim)
             IN  Finish(results,
                        _set_previous_cursor(db, q, results, FALSE, iv),
                        _set_next_cursor(db, q, lim, results, FALSE, iv),
                        1, FALSE)

get_next(db, q, lim, cursor, iv) ==
    LET dec == decode_id(cursor)
    IN  IF ~dec.ok THEN Raise(dec.error, 0)
        ELSE LET results ==
                     Limit(OrderDesc({r \in Matching(db, q) : r.id < dec.value}),
                           lim)
             IN  Finish(results,
                        _set_previous_cursor(db, q, results, FALSE, iv),
                        _set_next_cursor(db, q, lim, results, FALSE, iv),
                        1, FALSE)

\* faulty variant: the rows above the cursor are read in descending order
get_previous_descending(db, q, lim, cursor, iv) ==
    LET dec == decode_id(cursor)
    IN  IF ~dec.ok THEN Raise(dec.error, 0)
        ELSE IF get_count(db, q) < lim
        THEN LET first == get_first(db, q, lim, iv)
             IN  [first EXCEPT !.queries = 1 + first.queries,
                               !.delegated = TRUE]
        ELSE LET results ==
                     Limit(OrderDesc({r \in Matching(db, q) : r.id > dec.value}),
                           lim)
             IN  Finish(results,
                        _set_previous_cursor(db, q, results, TRUE, iv),
                        _set_next_cursor(db, q, lim, results, TRUE, iv),
                        2, FALSE)

get_previous(db, q, lim, cursor, iv) ==
    LET dec == decode_id(cursor)
    IN  IF ~dec.ok THEN Raise(dec.error, 0)
        ELSE IF get_count(db, q) < lim
        THEN LET first == get_first(db, q, lim, iv)
             IN  [first EXCEPT !.queries = 1 + first.queries,
                               !.delegated = TRUE]
        ELSE LET results ==
                     Limit(OrderAsc({r \in Matching(db, q) : r.id > dec.value}),
                           lim)
             IN  Finish(results,
                        _set_previous_cursor(db, q, results, TRUE, iv),
                        _set_next_cursor(db, q, lim, results, TRUE, iv),
                        2, FALSE)

----------------------------------------------------------------------------
(* utils/paginations/mongo.py: MongoPaginator *)

OidLen == 2       \* hex digits of a key's text form

HexChars == <<"0", "1", "2", "3", "4", "5", "6", "7", "8", "9",
              "a", "b", "c", "d", "e", "f">>

IsHex(c) == \E d \in 1..16 : HexChars[d] = c

HexVal(c) == (CHOOSE d \in 1..16 : HexChars[d] = c) - 1

RECURSIVE HexText(_, _)
HexText(n, width) ==
    IF width = 0 THEN <<>>
    ELSE HexText(n \div 16, width - 1) \o <<HexChars[(n % 16) + 1]>>

RECURSIVE ParseHex(_)
ParseHex(s) ==
    IF Len(s) = 0 THEN 0
    ELSE 16 * ParseHex(SubSeq(s, 1, Len(s) - 1)) + HexVal(s[Len(s)])

\* str(ObjectId): the key's fixed-width hex text
OidStr(k) == [kind |-> "str", text |-> HexText(k, OidLen)]

\* bson.ObjectId(text): InvalidId unless the text is OidLen hex digits
ObjectId(c) ==
    IF Len(c.text) = OidLen /\ \A i \in 1..Len(c.text) : IsHex(c.text[i])
    THEN [ok |-> TRUE, value |-> ParseHex(c.text)]
    ELSE [ok |-> FALSE, error |-> "InvalidId"]

\* bool(cursor): None and the empty string are falsy
Truthy(c) == c # None /\ Len(c.text) > 0

\* collection.find(query): the documents the filter mapping selects
Find(coll, mq) ==
    {d \in coll :
        /\ mq.base = "all" \/ d.active
        /\ mq._id = None
           \/ (mq._id.op = "$lt" /\ d.id < mq._id.val)
           \/ (mq._id.op = "$gt" /\ d.id > mq._id.val)}

has_next(coll, last_item) == \E d \in coll : d.id < last_item

has_previous(coll, first_item) == \E d \in coll : d.id > first_item

MongoReturn(status, items, prev, next, nq, mq) ==
    [status |-> status, items |-> items, previous_cursor |-> prev,
     next_cursor |-> next, queries |-> nq, delegated |-> FALSE, query |-> mq]

\* MongoPaginator(collection, query, limit, cursor).get_page(forward); the
\* field "query" of the result is the caller's mapping as the call leaves it
get_page(coll, mq, lim, cursor, forward) ==
    LET given == Truthy(cursor)
        oid == IF given THEN ObjectId(cursor) ELSE [ok |-> TRUE, value |-> 0]
    IN  IF ~oid.ok THEN MongoReturn(oid.error, <<>>, None, None, 0, mq)
        ELSE
        LET query == IF given
                     THEN [mq EXCEPT !._id =
                              [op |-> IF forward THEN "$lt" ELSE "$gt",
                               val |-> oid.value]]
                     ELSE mq
            results == Limit(OrderDesc(Find(coll, query)), lim)
        IN  IF Len(results) > 0
            THEN LET hp == has_previous(coll, results[1].id)
                     full == ~(Len(results) < lim)
                     hn == full /\ has_next(coll, results[Len(results)].id)
                 IN  MongoReturn("ok", results,
                         IF hp THEN OidStr(results[1].id) ELSE None,
                         IF hn THEN OidStr(results[Len(results)].id) ELSE None,
                         IF full THEN 3 ELSE 2, query)
            ELSE MongoReturn("ok", results, None, None, 1, query)

----------------------------------------------------------------------------
(* utils/limiters/throttle.py: RequestLimiter.limiter *)

max_requests == 2     \* LIMIT_GET
period == 2           \* TIME_GET, in seconds
NumRequests == 3      \* requests in flight over the run
MaxTime == 2          \* the clock runs from 0 to MaxTime

Clients == {"10.0.0.1", "10.0.0.2"}
Handlers == {"get_all_users"}
Requests == 1..NumRequests
Windows == 0..(MaxTime \div period)
Keys == Clients \X Handlers \X Windows

\* a missing key, and the reply of GET on it
Nil == [nil |-> TRUE]
Bulk(n) == [nil |-> FALSE, val |-> n]
Entry(n, ttl) == [nil |-> FALSE, val |-> n, ttl |-> ttl]
NoExpiry == 0 - 1

Idle == [pc |-> "idle", key |-> <<>>, request_count |-> Nil, reply |-> 0]

LimiterIdle ==
    /\ redis = [k \in Keys |-> Nil]
    /\ now = 0
    /\ req = [r \in Requests |-> Idle]
    /\ calls = [k \in Keys |-> 0]

\* redis_client.get(key)
redis_get(store_, key) ==
    IF store_[key].nil THEN Nil ELSE Bulk(store_[key].val)

\* redis_client.incr(key): a missing key counts from 0 and gets no expiry
redis_incr(store_, key) ==
    [store_ EXCEPT ![key] =
        IF @.nil THEN Entry(1, NoExpiry) ELSE Entry(@.val + 1, @.ttl)]

\* redis_client.expire(key, seconds), issued at time t
redis_expire(store_, key, seconds, t) ==
    [store_ EXCEPT ![key] = IF @.nil THEN @ ELSE Entry(@.val, t + seconds)]

\* the keys whose expiry has passed at time t are gone
redis_evict(store_, t) ==
    [k \in Keys |->
        IF ~store_[k].nil /\ store_[k].ttl # NoExpiry /\ store_[k].ttl <= t
        THEN Nil ELSE store_[k]]

\* `if request_count and int(request_count) >= max_requests`
OverLimit(request_count) ==
    ~request_count.nil /\ request_count.val >= max_requests

\* wrapper entry: client_ip, current_time, action, redis_key
Arrive(r) ==
    /\ req[r].pc = "idle"
    /\ \A o \in Requests : o < r => req[o].pc # "idle"
    /\ \E ip \in Clients, action \in Handlers :
           req' = [req EXCEPT ![r].pc = "get",
                              ![r].key = <<ip, action, now \div period>>]
    /\ UNCHANGED <<redis, now, calls>>
    /\ UNCHANGED pagerVars

\* request_count = redis_client.get(redis_key)
Get(r) ==
    /\ req[r].pc = "get"
    /\ req' = [req EXCEPT ![r].pc = "compare",
                          ![r].request_count = redis_get(redis, req[r].key)]
    /\ UNCHANGED <<redis, now, calls>>
    /\ UNCHANGED pagerVars

\* the comparison, and HTTPException(status_code=429) when over the limit
Compare(r) ==
    /\ req[r].pc = "compare"
    /\ req' = IF OverLimit(req[r].request_count)
              THEN [req EXCEPT ![r].pc = "done", ![r].reply = 429]
              ELSE [req EXCEPT ![r].pc = "incr"]
    /\ UNCHANGED <<redis, now, calls>>
    /\ UNCHANGED pagerVars

\* redis_client.incr(redis_key)
Incr(r) ==
    /\ req[r].pc = "incr"
    /\ redis' = redis_incr(redis, req[r].key)
    /\ req' = [req EXCEPT ![r].pc = "expire"]
    /\ UNCHANGED <<now, calls>>
    /\ UNCHANGED pagerVars

\* redis_client.expire(redis_key, period)
Expire(r) ==
    /\ req[r].pc = "expire"
    /\ redis' = redis_expire(redis, req[r].key, period, now)
    /\ req' = [req EXCEPT ![r].pc = "call"]
    /\ UNCHANGED <<now, calls>>
    /\ UNCHANGED pagerVars

\* return await func(*args, **kwargs)
CallHandler(r) ==
    /\ req[r].pc = "call"
    /\ calls' = [calls EXCEPT ![req[r].key] = @ + 1]
    /\ req' = [req EXCEPT ![r].pc = "done", ![r].reply = 200]
    /\ UNCHANGED <<redis, now>>
    /\ UNCHANGED pagerVars

\* a second passes; Redis drops the keys that expired
Tick ==
    /\ now < MaxTime
    /\ now' = now + 1
    /\ redis' = redis_evict(redis, now + 1)
    /\ UNCHANGED <<req, calls>>
    /\ UNCHANGED pagerVars

----------------------------------------------------------------------------
(* The callers of the paginators *)

LastId == FirstId + MaxRows - 1

\* every table over Ids: each identifier absent, active or inactive
Tables ==
    {{[id |-> i, active |-> (f[i] = "active")] : i \in {j \in Ids : f[j] # "absent"}} :
        f \in [Ids -> {"absent", "active", "inactive"}]}

\* cursors a client can send: tokens issued for some identifier, a tampered
\* token, a malformed one, and valid tokens around a non-integer payload
Tampered == [encode_id(FirstId, 0) EXCEPT !.tag = FALSE]
Malformed == [kind |-> "str", fmt |-> FALSE, tag |-> FALSE, iv |-> 0, payload |-> <<>>]
SentTokens ==
    {encode_id(i, 0) : i \in (FirstId - 1) .. (LastId + 1)}
    \cup {Tampered, Malformed, encrypt(<<"x">>, 0), encrypt(<<>>, 0),
          encrypt(<<"+", "9">>, 0)}

IsDbOp(o) == o \in {"get_first", "get_next", "get_previous"}

IssuedCursors ==
    IF IsDbOp(resp.op)
    THEN {resp.out.previous_cursor, resp.out.next_cursor} \ {None}
    ELSE {}

SentKeys ==
    {OidStr(i) : i \in (FirstId - 1) .. (LastId + 1)}
    \cup {[kind |-> "str", text |-> <<"z">>], [kind |-> "str", text |-> <<>>]}

NoCall == [op |-> "none", cursor |-> None, forward |-> TRUE, query_in |-> None,
           out |-> Raise("none", 0)]

Call(op, cursor, out) ==
    [op |-> op, cursor |-> cursor, forward |-> TRUE, query_in |-> None, out |-> out]

FreshQuery(q) == [base |-> q, _id |-> None]

InitPager ==
    /\ rows \in Tables
    /\ flt \in Filters
    /\ limit \in Limits
    /\ store \in {"postgres", "mongo"}
    /\ resp = NoCall
    /\ mquery = FreshQuery(flt)
    /\ pc = "start"
    /\ acc = <<>>

Init == InitPager /\ LimiterIdle

GetFirst ==
    /\ store = "postgres"
    /\ \E iv \in IVs :
           resp' = Call("get_first", None, get_first(rows, flt, limit, iv))
    /\ UNCHANGED <<rows, flt, limit, store, mquery, pc, acc>>
    /\ UNCHANGED limiterVars

GetNext ==
    /\ store = "postgres"
    /\ \E c \in SentTokens \cup IssuedCursors \cup {None}, iv \in IVs :
           resp' = Call("get_next", c, get_next(rows, flt, limit, c, iv))
    /\ UNCHANGED <<rows, flt, limit, store, mquery, pc, acc>>
    /\ UNCHANGED limiterVars

GetPrevious ==
    /\ store = "postgres"
    /\ \E c \in SentTokens \cup IssuedCursors \cup {None}, iv \in IVs :
           resp' = Call("get_previous", c, get_previous(rows, flt, limit, c, iv))
    /\ UNCHANGED <<rows, flt, limit, store, mquery, pc, acc>>
    /\ UNCHANGED limiterVars

\* the caller builds a new filter mapping for its next request
BuildQuery ==
    /\ store = "mongo"
    /\ mquery' = FreshQuery(flt)
    /\ UNCHANGED <<rows, flt, limit, store, resp, pc, acc>>
    /\ UNCHANGED limiterVars

\* the caller pages the collection with the mapping it holds
MongoGetPage ==
    /\ store = "mongo"
    /\ \E c \in SentKeys \cup {None}, forward \in BOOLEAN :
           LET out == get_page(rows, mquery, limit, c, forward)
           IN  /\ resp' = [op |-> "get_page", cursor |-> c, forward |-> forward,
                           query_in |-> mquery, out |-> out]
               /\ mquery' = out.query
    /\ UNCHANGED <<rows, flt, limit, store, pc, acc>>
    /\ UNCHANGED limiterVars

Next == GetFirst \/ GetNext \/ GetPrevious \/ BuildQuery \/ MongoGetPage

Spec == Init /\ [][Next]_vars

----------------------------------------------------------------------------
(* A client that starts at the first page and follows next_cursor *)

Walked(out) ==
    IF out.status # "ok" THEN "failed"
    ELSE IF out.next_cursor = None THEN "done" ELSE "walking"

WalkFirst ==
    /\ pc = "start"
    /\ \E iv \in IVs :
           resp' = Call("get_first", None, get_first(rows, flt, limit, iv))
    /\ acc' = resp'.out.items
    /\ pc' = Walked(resp'.out)
    /\ UNCHANGED <<rows, flt, limit, store, mquery>>
    /\ UNCHANGED limiterVars

WalkNext ==
    /\ pc = "walking"
    /\ \E iv \in IVs :
           resp' = Call("get_next", resp.out.next_cursor,
                        get_next(rows, flt, limit, resp.out.next_cursor, iv))
    /\ acc' = acc \o resp'.out.items
    /\ pc' = Walked(resp'.out)
    /\ UNCHANGED <<rows, flt, limit, store, mquery>>
    /\ UNCHANGED limiterVars

InitWalk == Init /\ store = "postgres"

NextWalk == WalkFirst \/ WalkNext

\* the client keeps calling until it is handed no next_cursor
SpecWalk == InitWalk /\ [][NextWalk]_vars /\ WF_vars(WalkFirst) /\ WF_vars(WalkNext)

----------------------------------------------------------------------------
(* Properties *)

Ok == resp.op # "none" /\ resp.out.status = "ok"

ItemIds == {resp.out.items[i].id : i \in 1..Len(resp.out.items)}

IdsOf(seq) == {seq[i].id : i \in 1..Len(seq)}

LastPage == IsDbOp(resp.op) /\ resp.out.status = "ok" /\ resp.out.next_cursor = None

\* C1: following next_cursor from get_first() on fixed rows eventually returns
\* a page with next_cursor = None, and the pages up to it list every row of
\* the base query exactly once, in strictly descending id order.
C1_Exhaustion ==
    /\ <>LastPage
    /\ [](LastPage => acc = OrderDesc(Matching(rows, flt)))

C1_Witness ==
    /\ pc = "done"
    /\ resp.op = "get_next"
    /\ limit = 1
    /\ Len(acc) = 3
    /\ flt = "active"
    /\ Cardinality(rows) > 3 - 1

\* C2: a non-None next_cursor comes with a full page, and get_next() with it
\* returns a non-empty page whose ids are all below every id of that page.
C2_NextCursorSound ==
    (IsDbOp(resp.op) /\ Ok /\ resp.out.next_cursor # None) =>
        /\ Len(resp.out.items) = limit
        /\ \A iv \in IVs :
               LET nxt == get_next(rows, flt, limit, resp.out.next_cursor, iv)
               IN  /\ nxt.status = "ok"
                   /\ Len(nxt.items) > 0
                   /\ \A a \in IdsOf(nxt.items), b \in ItemIds : a < b

C2_Witness ==
    /\ resp.op = "get_previous"
    /\ Ok
    /\ ~resp.out.delegated
    /\ resp.out.next_cursor # None
    /\ limit > 1

\* C3: no page of either paginator holds more than page_size items.
C3_PageSizeBound == Ok => Len(resp.out.items) <= limit

C3_Witness ==
    /\ resp.op = "get_page"
    /\ ~resp.forward
    /\ Ok
    /\ Len(resp.out.items) = limit
    /\ Cardinality(Find(rows, mquery)) > limit

\* C4: get_first() returns no previous_cursor; get_next() and get_previous()
\* return one only when a row of the base query has an id above every id of
\* the page.
C4_PreviousCursorSound ==
    /\ (resp.op = "get_first" /\ Ok) => resp.out.previous_cursor = None
    /\ (resp.op \in {"get_next", "get_previous"} /\ Ok
            /\ resp.out.previous_cursor # None) =>
           \E r \in Matching(rows, flt) : \A b \in ItemIds : r.id > b

C4_Witness ==
    /\ resp.op = "get_previous"
    /\ Ok
    /\ ~resp.out.delegated
    /\ resp.out.previous_cursor # None
    /\ Len(resp.out.items) > 1

Decoded == decode_id(resp.cursor)

\* C5: get_previous() with fewer matching rows than page_size returns what
\* get_first() returns, whatever id the cursor encodes; otherwise it does not
\* delegate and returns the rows just above the cursor, ascending.
C5_PreviousShortCircuit ==
    (resp.op = "get_previous" /\ Decoded.ok) =>
        IF Cardinality(Matching(rows, flt)) < limit
        THEN /\ resp.out.delegated
             /\ \A iv \in IVs :
                    LET first == get_first(rows, flt, limit, iv)
                    IN  /\ resp.out.status = first.status
                        /\ resp.out.items = first.items
                        /\ resp.out.previous_cursor = first.previous_cursor
                        /\ resp.out.next_cursor = first.next_cursor
        ELSE LET above == {r \in Matching(rows, flt) : r.id > Decoded.value}
             IN  /\ ~resp.out.delegated
                 /\ Ok
                 /\ ItemIds \subseteq {r.id : r \in above}
                 /\ \A i \in 1..(Len(resp.out.items) - 1) :
                        resp.out.items[i].id < resp.out.items[i + 1].id
                 /\ \A r \in above : r.id \in ItemIds \/ \A b \in ItemIds : b < r.id
                 /\ Len(resp.out.items) =
                        IF Cardinality(above) < limit THEN Cardinality(above)
                        ELSE limit

C5_Witness ==
    /\ resp.op = "get_previous"
    /\ resp.out.delegated
    /\ Len(resp.out.items) > 0
    /\ Decoded.ok
    /\ Decoded.value > FirstId
    /\ flt = "active"
    /\ Cardinality(rows) >= limit

\* C6: get_next() and get_previous() with a cursor that does not decode fail
\* before any query: no page, no cursor, never the first page.
Undecodable(c) == ~c.fmt \/ ~c.tag \/ ~int(c.payload).ok

C6_InvalidCursorFails ==
    (resp.op \in {"get_next", "get_previous"} /\ resp.cursor # None
            /\ Undecodable(resp.cursor)) =>
        /\ resp.out.status \in {"InvalidToken", "ValueError"}
        /\ resp.out.queries = 0
        /\ resp.out.items = <<>>
        /\ resp.out.previous_cursor = None
        /\ resp.out.next_cursor = None
        /\ ~resp.out.delegated

C6_Witness ==
    /\ resp.op = "get_previous"
    /\ resp.cursor = Tampered
    /\ Cardinality(Matching(rows, flt)) < limit
    /\ Matching(rows, flt) # {}
    /\ resp.out.status = "InvalidToken"

\* the rows the main fetch of the last call selects, before its LIMIT
Fetched ==
    CASE resp.op = "get_first" -> Matching(rows, flt)
      [] resp.op = "get_next" ->
            {r \in Matching(rows, flt) : r.id < Decoded.value}
      [] resp.op = "get_previous" ->
            IF Cardinality(Matching(rows, flt)) < limit
            THEN Matching(rows, flt)
            ELSE {r \in Matching(rows, flt) : r.id > Decoded.value}
      [] resp.op = "get_page" -> Find(rows, resp.out.query)

\* the last call got as far as its main fetch
Fetches ==
    \/ resp.op = "get_first"
    \/ resp.op \in {"get_next", "get_previous"} /\ Decoded.ok
    \/ resp.op = "get_page" /\ (Truthy(resp.cursor) => ObjectId(resp.cursor).ok)

\* C7: a main fetch of zero rows is no error: the call returns items = []
\* with previous_cursor = None and next_cursor = None.
C7_EmptyIsNoError ==
    (Fetches /\ Fetched = {}) =>
        /\ resp.out.status = "ok"
        /\ resp.out.items = <<>>
        /\ resp.out.previous_cursor = None
        /\ resp.out.next_cursor = None

C7_Witness ==
    /\ resp.op = "get_previous"
    /\ ~resp.out.delegated
    /\ Ok
    /\ resp.out.items = <<>>
    /\ Matching(rows, flt) # {}

\* the page and cursors of a response
Triple(out) == <<out.status, out.items, out.previous_cursor, out.next_cursor>>

\* C8: get_page() leaves the caller's filter mapping unchanged, so a request
\* built on a mapping used before returns what it returns on a new mapping.
C8_NoSharedState ==
    resp.op = "get_page" =>
        /\ mquery = resp.query_in
        /\ Triple(resp.out) =
               Triple(get_page(rows, FreshQuery(flt), limit, resp.cursor,
                               resp.forward))

\* the relational paginator at the position of the last get_page() call
Relational ==
    IF Truthy(resp.cursor)
    THEN get_next(rows, flt, limit, encode_id(ObjectId(resp.cursor).value, 0), 0)
    ELSE get_first(rows, flt, limit, 0)

\* C9: on the same records, filter, page_size and forward position,
\* get_page(forward=True) sets previous_cursor / next_cursor exactly when
\* get_first() / get_next() does.
C9_CursorPresenceAgrees ==
    (resp.op = "get_page" /\ resp.forward /\ Ok /\ resp.query_in = FreshQuery(flt)) =>
        /\ (resp.out.previous_cursor # None) = (Relational.previous_cursor # None)
        /\ (resp.out.next_cursor # None) = (Relational.next_cursor # None)

\* C11 as stated: every page computation of DBPaginator that returns a page
\* issues at least 1 and at most 3 queries (main fetch, count, boundary
\* probes).
C11_OneToThreeQueries ==
    (IsDbOp(resp.op) /\ Ok) =>
        (resp.out.queries >= 1 /\ resp.out.queries <= 3)

\* C11 amended: a page computation that returns a page issues at least 1 and
\* at most 4 queries: get_first() at most 2, get_next() at most 3, and
\* get_previous() between 2 and 4, 4 being the count query, the main fetch and
\* both boundary probes on a full page.
C11_OneToFourQueries ==
    (IsDbOp(resp.op) /\ Ok) =>
        /\ resp.out.queries >= 1
        /\ resp.out.queries <= 4
        /\ resp.op = "get_first" => resp.out.queries <= 2
        /\ resp.op = "get_next" => resp.out.queries <= 3
        /\ resp.op = "get_previous" => resp.out.queries >= 2
        /\ (resp.op = "get_previous" /\ ~resp.out.delegated
                /\ Len(resp.out.items) = limit) => resp.out.queries = 4

C11_Witness ==
    /\ resp.op = "get_previous"
    /\ Ok
    /\ ~resp.out.delegated
    /\ resp.out.queries = 4
    /\ resp.out.previous_cursor # None
    /\ resp.out.next_cursor # None

\* the documents of the base filter adjacent to key c from above: the at
\* most lim smallest keys strictly greater than c
AdjacentAbove(c, lim) ==
    LET above == {d \in Matching(rows, flt) : d.id > c}
    IN  {d.id : d \in {e \in above :
                          Cardinality({o \in above : o.id < e.id}) < lim}}

\* C12: get_page(forward=False) with cursor c returns the page immediately
\* preceding c (the at most page_size matching documents with the smallest
\* keys above c), so paging forward from a full page P and then backward with
\* the previous_cursor of the page reached returns the documents of P.
C12_BackwardPageAdjacent ==
    /\ (resp.op = "get_page" /\ ~resp.forward /\ Ok /\ Truthy(resp.cursor)
            /\ resp.query_in = FreshQuery(flt)) =>
           ItemIds = AdjacentAbove(ObjectId(resp.cursor).value, limit)
    /\ (resp.op = "get_page" /\ resp.forward /\ Ok
            /\ resp.query_in = FreshQuery(flt)
            /\ resp.out.next_cursor # None) =>
           LET reached == get_page(rows, FreshQuery(flt), limit,
                                   resp.out.next_cursor, TRUE)
               back == get_page(rows, FreshQuery(flt), limit,
                                reached.previous_cursor, FALSE)
           IN  /\ reached.status = "ok"
               /\ reached.previous_cursor # None
               /\ back.status = "ok"
               /\ IdsOf(back.items) = ItemIds

\* the last call fetched a non-empty page and probed for a previous cursor
Probed ==
    /\ resp.op \in {"get_next", "get_previous"}
    /\ Ok
    /\ ~resp.out.delegated
    /\ Len(resp.out.items) > 0

\* the page element the probe is compared with: the first element, or the
\* last element of the fetched list when the reversed flag is on
PageElement ==
    IF resp.op = "get_previous" THEN resp.out.items[Len(resp.out.items)].id
    ELSE resp.out.items[1].id

\* previous_cursor is set, to the encoded id of the page element, exactly
\* when the row with identifier extreme differs from that element
PreviousCursorBy(extreme) ==
    IF extreme # PageElement
    THEN /\ resp.out.previous_cursor # None
         /\ decode_id(resp.out.previous_cursor) = [ok |-> TRUE, value |-> PageElement]
    ELSE resp.out.previous_cursor = None

\* C13 as stated: for a non-empty page the previous-cursor probe reads the
\* smallest-identifier row of the base query, and previous_cursor is set
\* exactly when that row differs from the page element.
C13_ProbeSmallest ==
    Probed =>
        PreviousCursorBy(
            CHOOSE i \in {r.id : r \in Matching(rows, flt)} :
                \A r \in Matching(rows, flt) : i <= r.id)

\* C13 amended: the probe reads the largest-identifier row of the base query
\* (the first row in descending order), and previous_cursor is set, to the
\* encoded id of the page element, exactly when that row differs from it.
C13_ProbeLargest ==
    Probed =>
        PreviousCursorBy(
            CHOOSE i \in {r.id : r \in Matching(rows, flt)} :
                \A r \in Matching(rows, flt) : i >= r.id)

C13_Witness ==
    /\ Probed
    /\ resp.op = "get_previous"
    /\ Len(resp.out.items) > 1
    /\ resp.out.previous_cursor = None
    /\ Cardinality(Matching(rows, flt)) > Len(resp.out.items)

\* the pages get_first() or get_next() can have returned whose next_cursor
\* addresses the same position as the cursor of the last call
PagesBefore ==
    {p \in {get_first(rows, flt, limit, 0)}
            \cup {get_next(rows, flt, limit, c, 0) : c \in SentTokens} :
        /\ p.status = "ok"
        /\ p.next_cursor # None
        /\ decode_id(p.next_cursor) = decode_id(resp.cursor)}

Ascending(seq) == \A i \in 1..(Len(seq) - 1) : seq[i].id < seq[i + 1].id

\* C14: if page Q came from get_next() with the next_cursor of page P, then
\* Q's previous_cursor is set and get_previous() with it returns the rows of
\* P in ascending id order, with a next_cursor that leads get_next() back to
\* the rows of Q.
C14_BackwardUndoesForward ==
    (resp.op = "get_next" /\ Ok /\ resp.cursor # None) =>
        \A p \in PagesBefore :
            /\ resp.out.previous_cursor # None
            /\ \A iv \in IVs :
                   LET back == get_previous(rows, flt, limit,
                                            resp.out.previous_cursor, iv)
                       again == get_next(rows, flt, limit, back.next_cursor, iv)
                   IN  /\ back.status = "ok"
                       /\ IdsOf(back.items) = IdsOf(p.items)
                       /\ Len(back.items) = Len(p.items)
                       /\ Ascending(back.items)
                       /\ back.next_cursor # None
                       /\ again.status = "ok"
                       /\ again.items = resp.out.items

C14_Witness ==
    /\ resp.op = "get_next"
    /\ Ok
    /\ resp.cursor # None
    /\ PagesBefore # {}
    /\ limit > 1
    /\ Len(resp.out.items) = 1
    /\ resp.out.next_cursor = None
    /\ Cardinality(Matching(rows, flt)) > limit

----------------------------------------------------------------------------
(* The limiter under concurrently processed requests *)

PagerIdle ==
    /\ rows = {}
    /\ flt = "all"
    /\ limit = 1
    /\ store = "postgres"
    /\ resp = NoCall
    /\ mquery = FreshQuery("all")
    /\ pc = "start"
    /\ acc = <<>>

InitLimiter == PagerIdle /\ LimiterIdle

NextLimiter ==
    \/ \E r \in Requests : Arrive(r)
    \/ \E r \in Requests : Get(r)
    \/ \E r \in Requests : Compare(r)
    \/ \E r \in Requests : Incr(r)
    \/ \E r \in Requests : Expire(r)
    \/ \E r \in Requests : CallHandler(r)
    \/ Tick

SpecLimiter == InitLimiter /\ [][NextLimiter]_vars

\* C10: per client IP, handler and window the wrapped handler runs at most
\* max_requests times under every interleaving of the wrapper's steps, and
\* every request beyond the limit is answered 429.
C10_AtMostMaxRequests ==
    /\ \A k \in Keys : calls[k] <= max_requests
    /\ \A r \in Requests :
           (req[r].pc = "done" /\ req[r].reply = 200) =>
               Cardinality({o \in Requests :
                               /\ req[o].key = req[r].key
                               /\ req[o].pc = "done"
                               /\ req[o].reply = 200}) <= max_requests

====
